---- MODULE Spec2Model ----
(***************************************************************************)
(* Model of scripts/project_ops.py: the project / project_tracks store of  *)
(* the APM Agent prototype.  The three CSV files are the state; every CLI  *)
(* command (create_project, add_track, remove_track, list_tracks) is one   *)
(* action that runs the whole handler, invocations run one at a time.      *)
(* A second part runs the same handlers step by step, one file access per  *)
(* step, as processes that can be killed and can interleave.               *)
(*                                                                         *)
(* A project_id is the character sequence the CSV holds, e.g.              *)
(* <<"P","0","0","1">> for P001, so that formatting (f'P{n:03d}') and       *)
(* parsing (int(s.replace('P',''))) are modelled as the code computes them. *)
(* A date is the number of the day (strftime('%Y-%m-%d') of that day).     *)
(* A position is the integer that int(row['position']) reads back.         *)
(***************************************************************************)
EXTENDS Integers, Sequences, FiniteSets, TLC

VARIABLES
    projects,        \* rows of projects.csv, in file order
    project_tracks,  \* rows of project_tracks.csv, in file order
    tracks,          \* rows of tracks.csv, in file order (read-only here)
    today,           \* the day datetime.now() falls on
    last,            \* the last command run: arguments, exit status, output
    pre,             \* the three tables as they were when that command began
    issued,          \* the project ids create_project has returned, in order
    scenario,        \* the results of the commands of a scripted session, in order
    procs,           \* the invocations that run step by step: position and locals
    headerless       \* the files that are zero bytes long (opened 'w', not yet written)

vars == <<projects, project_tracks, tracks, today, last, pre, issued,
          scenario, procs, headerless>>

\* what the commands run one at a time leave alone
stepwise == <<scenario, procs, headerless>>

----------------------------------------------------------------------------
(* Bounds of the exploration *)

MaxProjects == 2     \* create_project is not run beyond this many project rows
MaxRows == 3         \* add_track does not append beyond this many membership rows
MaxPos == 3          \* add_track is not run where it would pass this position

(* Inputs of the commands *)

Days == {0, 1}       \* the days the commands are run on; the seeded rows are of day 0
TrackIds == {"T1", "T2", "T3"}
NotesArgs == {""}
NameArgs == {"A"}

----------------------------------------------------------------------------
(* Decimal text, as Python's int() and format() compute it *)

DigitChars == <<"0", "1", "2", "3", "4", "5", "6", "7", "8", "9">>

CharVal(c) == (CHOOSE i \in 1..10 : DigitChars[i] = c) - 1

RECURSIVE DecStr(_)
DecStr(n) ==
    IF n < 10 THEN <<DigitChars[n + 1]>>
    ELSE DecStr(n \div 10) \o <<DigitChars[(n % 10) + 1]>>

RECURSIVE ParseInt(_)
ParseInt(s) ==
    IF Len(s) = 0 THEN 0
    ELSE 10 * ParseInt(SubSeq(s, 1, Len(s) - 1)) + CharVal(s[Len(s)])

RECURSIVE ZeroPad(_, _)
ZeroPad(s, w) == IF Len(s) >= w THEN s ELSE ZeroPad(<<"0">> \o s, w)

IdWidth == 3

\* f'P{n:03d}'
FormatProjectId(n) == <<"P">> \o ZeroPad(DecStr(n), IdWidth)

\* int(project_id.replace('P', ''))
ProjectIdNumber(pid) == ParseInt(SelectSeq(pid, LAMBDA c : c # "P"))

Max(a, b) == IF a >= b THEN a ELSE b

----------------------------------------------------------------------------
(* The read-only helpers of project_ops.py, each a scan of one table *)

RECURSIVE MaxProjectNumber(_)
MaxProjectNumber(projs) ==
    IF Len(projs) = 0 THEN 0
    ELSE Max(MaxProjectNumber(SubSeq(projs, 1, Len(projs) - 1)),
             ProjectIdNumber(projs[Len(projs)].project_id))

\* variant: numbers the new project by the count of rows
get_next_project_id_by_count(projs) == FormatProjectId(Len(projs) + 1)

get_next_project_id(projs) == FormatProjectId(MaxProjectNumber(projs) + 1)

\* variant: the catalog is not consulted
validate_track_exists_skipped(trks, track_id) == TRUE

validate_track_exists(trks, track_id) ==
    \E i \in 1..Len(trks) : trks[i].id = track_id

validate_project_exists(projs, project_id) ==
    \E i \in 1..Len(projs) : projs[i].project_id = project_id

RECURSIVE MaxPosition(_, _)
MaxPosition(pts, project_id) ==
    IF Len(pts) = 0 THEN 0
    ELSE LET rest == MaxPosition(SubSeq(pts, 1, Len(pts) - 1), project_id)
             row == pts[Len(pts)]
         IN IF row.project_id = project_id THEN Max(rest, row.position) ELSE rest

\* variant: one past the largest position of the whole file
get_next_position_any_project(pts, project_id) ==
    (IF Len(pts) = 0 THEN 0
     ELSE CHOOSE m \in {pts[i].position : i \in 1..Len(pts)} :
              \A i \in 1..Len(pts) : pts[i].position <= m) + 1

\* variant: one past the number of rows of the project
get_next_position_by_count(pts, project_id) ==
    Cardinality({i \in 1..Len(pts) : pts[i].project_id = project_id}) + 1

get_next_position(pts, project_id) == MaxPosition(pts, project_id) + 1

\* variant: the scan stops after the first row of the file
track_in_project_first_row(pts, project_id, track_id) ==
    /\ Len(pts) > 0
    /\ pts[1].project_id = project_id
    /\ pts[1].track_id = track_id

track_in_project(pts, project_id, track_id) ==
    \E i \in 1..Len(pts) :
        pts[i].project_id = project_id /\ pts[i].track_id = track_id

\* the first row with that id wins; "Unknown" when there is none
get_track_title(trks, track_id) ==
    IF validate_track_exists(trks, track_id)
    THEN LET i == CHOOSE k \in 1..Len(trks) :
                      /\ trks[k].id = track_id
                      /\ \A j \in 1..(k - 1) : trks[j].id # track_id
         IN trks[i].track_title
    ELSE "Unknown"

\* variant: only the matching row is written back
update_project_modified_only_match(projs, project_id, day) ==
    LET hit == SelectSeq(projs, LAMBDA r : r.project_id = project_id)
    IN [i \in 1..Len(hit) |-> [hit[i] EXCEPT !.modified_on = day]]

\* variant: modified_on is set in every row
update_project_modified_all_rows(projs, project_id, day) ==
    [i \in 1..Len(projs) |-> [projs[i] EXCEPT !.modified_on = day]]

\* rewrites projects.csv with modified_on of the first matching row set
update_project_modified(projs, project_id, day) ==
    [i \in 1..Len(projs) |->
        IF /\ projs[i].project_id = project_id
           /\ \A j \in 1..(i - 1) : projs[j].project_id # project_id
        THEN [projs[i] EXCEPT !.modified_on = day]
        ELSE projs[i]]

----------------------------------------------------------------------------
(* What each command computes *)

\* variant: the project is not validated
add_track_error_track_only(projs, trks, pts, project_id, track_id) ==
    IF ~validate_track_exists(trks, track_id) THEN "NotFound(track)"
    ELSE IF track_in_project(pts, project_id, track_id) THEN "Conflict"
    ELSE "none"

\* variant: the duplicate check is missing
add_track_error_no_conflict(projs, trks, pts, project_id, track_id) ==
    IF ~validate_project_exists(projs, project_id) THEN "NotFound(project)"
    ELSE IF ~validate_track_exists(trks, track_id) THEN "NotFound(track)"
    ELSE "none"

\* variant: the track is validated before the project
add_track_error_track_first(projs, trks, pts, project_id, track_id) ==
    IF ~validate_track_exists(trks, track_id) THEN "NotFound(track)"
    ELSE IF ~validate_project_exists(projs, project_id) THEN "NotFound(project)"
    ELSE IF track_in_project(pts, project_id, track_id) THEN "Conflict"
    ELSE "none"

\* the error add_track stops at, "none" when every check passes
add_track_error(projs, trks, pts, project_id, track_id) ==
    IF ~validate_project_exists(projs, project_id) THEN "NotFound(project)"
    ELSE IF ~validate_track_exists(trks, track_id) THEN "NotFound(track)"
    ELSE IF track_in_project(pts, project_id, track_id) THEN "Conflict"
    ELSE "none"

\* the row add_track builds
add_track_row(pts, project_id, track_id, notes, day) ==
    [project_id |-> project_id,
     track_id   |-> track_id,
     added_date |-> day,
     position   |-> get_next_position(pts, project_id),
     notes      |-> notes]

\* variant: the rows the project keeps are written after all other rows
remove_track_rows_regrouped(pts, project_id, track_id) ==
    SelectSeq(pts, LAMBDA r : r.project_id # project_id)
    \o SelectSeq(pts, LAMBDA r : r.project_id = project_id
                                  /\ r.track_id # track_id)

\* variant: the filter forgets the project
remove_track_rows_by_track(pts, project_id, track_id) ==
    SelectSeq(pts, LAMBDA r : r.track_id # track_id)

\* the rows remove_track keeps
remove_track_rows(pts, project_id, track_id) ==
    SelectSeq(pts, LAMBDA r : ~(r.project_id = project_id /\ r.track_id = track_id))

\* variant: the error is raised only when the project has no row at all
remove_track_error_by_project(pts, project_id, track_id) ==
    IF \A i \in 1..Len(pts) : pts[i].project_id # project_id
    THEN "NotFound(membership)"
    ELSE "none"

remove_track_error(pts, project_id, track_id) ==
    IF Len(remove_track_rows(pts, project_id, track_id)) = Len(pts)
    THEN "NotFound(membership)"
    ELSE "none"

\* variant: the rows of every project are collected
list_tracks_collect_all_projects(trks, pts, project_id) ==
    [i \in 1..Len(pts) |->
        [position   |-> pts[i].position,
         track_id   |-> pts[i].track_id,
         title      |-> get_track_title(trks, pts[i].track_id),
         added_date |-> pts[i].added_date,
         notes      |-> pts[i].notes]]

\* the entries list_tracks collects, in file order
list_tracks_collect(trks, pts, project_id) ==
    LET mine == SelectSeq(pts, LAMBDA r : r.project_id = project_id)
    IN [i \in 1..Len(mine) |->
           [position   |-> mine[i].position,
            track_id   |-> mine[i].track_id,
            title      |-> get_track_title(trks, mine[i].track_id),
            added_date |-> mine[i].added_date,
            notes      |-> mine[i].notes]]

\* variant: the entries stay in file order
SortByPosition_unsorted(s) == s

\* list.sort(key=position): stable, ascending
RECURSIVE SortByPosition(_)
SortByPosition(s) ==
    IF Len(s) <= 1 THEN s
    ELSE LET front == SortByPosition(SubSeq(s, 1, Len(s) - 1))
             x == s[Len(s)]
             k == Cardinality({i \in 1..Len(front) : front[i].position <= x.position})
         IN SubSeq(front, 1, k) \o <<x>> \o SubSeq(front, k + 1, Len(front))

list_tracks_output(trks, pts, project_id) ==
    SortByPosition(list_tracks_collect(trks, pts, project_id))

\* variant: the project is not validated
list_tracks_error_skipped(projs, project_id) == "none"

list_tracks_error(projs, project_id) ==
    IF ~validate_project_exists(projs, project_id) THEN "NotFound(project)"
    ELSE "none"

\* sys.exit(1) after an error message, 0 otherwise
ExitStatus(err) == IF err = "none" THEN 0 ELSE 1

----------------------------------------------------------------------------
(* The files a run starts from *)

P(n) == FormatProjectId(n)

ProjectRow(pid, name, day) ==
    [project_id |-> pid, name |-> name, created_on |-> day,
     modified_on |-> day, status |-> "Active"]

MemberRow(pid, tid, day, pos, notes) ==
    [project_id |-> pid, track_id |-> tid, added_date |-> day,
     position |-> pos, notes |-> notes]

\* tracks.csv: T3 is an id the catalog no longer holds
Catalog == <<[id |-> "T1", track_title |-> "One"],
             [id |-> "T2", track_title |-> "Two"]>>

\* project_ids the commands are run with
ProjectIdArgs == {P(1), P(2)}

InitialStores ==
    { \* fresh files
      [projects |-> <<>>, project_tracks |-> <<>>],
      \* a seeded store: P001 holds T3, which has since left the catalog, at
      \* position 2 and, later in the file, T1 at position 1; one row belongs
      \* to P002, which is not in projects.csv until it is created
      [projects |-> <<ProjectRow(P(1), "S", 0)>>,
       project_tracks |-> <<MemberRow(P(1), "T3", 0, 2, ""),
                            MemberRow(P(1), "T1", 0, 1, "s"),
                            MemberRow(P(2), "T1", 0, 1, "")>>],
      \* seeded project numbers at the decimal carries
      [projects |-> <<ProjectRow(P(9), "S", 0)>>, project_tracks |-> <<>>],
      [projects |-> <<ProjectRow(P(999), "S", 0)>>, project_tracks |-> <<>>] }

NoCommand ==
    [op |-> "none", project_id |-> <<>>, track_id |-> "", err |-> "none",
     position |-> 0]

\* what list_tracks remembers of the command run just before it: a successful
\* add_track or remove_track, nothing of any other command
Summary(l) ==
    IF l.op \in {"add_track", "remove_track"} /\ l.err = "none"
    THEN [op |-> l.op, project_id |-> l.project_id, track_id |-> l.track_id,
          err |-> l.err, position |-> l.position]
    ELSE NoCommand

\* what remove_track remembers of the command run just before it: a successful
\* add_track of the same pair, nothing of any other command
SummaryOfAdd(l, project_id, track_id) ==
    IF /\ l.op = "add_track" /\ l.err = "none"
       /\ l.project_id = project_id /\ l.track_id = track_id
    THEN [op |-> l.op, project_id |-> l.project_id, track_id |-> l.track_id,
          err |-> l.err, position |-> l.position]
    ELSE NoCommand

Tables == [projects |-> projects, project_tracks |-> project_tracks,
           tracks |-> tracks]

Init ==
    /\ \E s \in InitialStores :
          /\ projects = s.projects
          /\ project_tracks = s.project_tracks
    /\ tracks = Catalog
    /\ today = 0
    /\ last = [op |-> "none", project_id |-> <<>>, track_id |-> "",
               notes |-> "", err |-> "none", exit |-> 0, ret |-> <<>>,
               position |-> 0, out |-> <<>>, follows |-> NoCommand]
    /\ pre = Tables
    /\ issued = <<>>
    /\ scenario = <<>>
    /\ procs = <<>>
    /\ headerless = {}

----------------------------------------------------------------------------
(* The commands *)

create_project(name) ==
    /\ Len(projects) < MaxProjects
    /\ LET project_id == get_next_project_id(projects)
       IN /\ projects' = Append(projects, ProjectRow(project_id, name, today))
          /\ issued' = Append(issued, project_id)
          /\ last' = [op |-> "create_project", project_id |-> project_id,
                      track_id |-> "", notes |-> "", err |-> "none",
                      exit |-> 0, ret |-> project_id, position |-> 0,
                      out |-> <<>>, follows |-> NoCommand]
    /\ pre' = Tables
    /\ UNCHANGED <<project_tracks, tracks, today>>

add_track(project_id, track_id, notes) ==
    LET err == add_track_error(projects, tracks, project_tracks,
                               project_id, track_id)
        new_row == add_track_row(project_tracks, project_id, track_id,
                                 notes, today)
    IN /\ err = "none" => /\ Len(project_tracks) < MaxRows
                           /\ new_row.position <= MaxPos
       /\ IF err = "none"
          THEN /\ project_tracks' = Append(project_tracks, new_row)
               /\ projects' = update_project_modified(projects, project_id, today)
          ELSE UNCHANGED <<project_tracks, projects>>
       /\ last' = [op |-> "add_track", project_id |-> project_id,
                   track_id |-> track_id, notes |-> notes, err |-> err,
                   exit |-> ExitStatus(err), ret |-> <<>>,
                   position |-> IF err = "none" THEN new_row.position ELSE 0,
                   out |-> <<>>, follows |-> NoCommand]
       /\ pre' = Tables
       /\ UNCHANGED <<tracks, today, issued>>

\* variant: modified_on is updated before the membership is looked for
remove_track_write_first(project_id, track_id) ==
    LET err == remove_track_error(project_tracks, project_id, track_id)
    IN /\ IF err = "none"
          THEN project_tracks' = remove_track_rows(project_tracks,
                                                   project_id, track_id)
          ELSE UNCHANGED project_tracks
       /\ projects' = update_project_modified(projects, project_id, today)
       /\ last' = [op |-> "remove_track", project_id |-> project_id,
                   track_id |-> track_id, notes |-> "", err |-> err,
                   exit |-> ExitStatus(err), ret |-> <<>>, position |-> 0,
                   out |-> <<>>,
                   follows |-> SummaryOfAdd(last, project_id, track_id)]
       /\ pre' = Tables
       /\ UNCHANGED <<tracks, today, issued>>

remove_track(project_id, track_id) ==
    LET err == remove_track_error(project_tracks, project_id, track_id)
    IN /\ IF err = "none"
          THEN /\ project_tracks' = remove_track_rows(project_tracks,
                                                      project_id, track_id)
               /\ projects' = update_project_modified(projects, project_id, today)
          ELSE UNCHANGED <<project_tracks, projects>>
       /\ last' = [op |-> "remove_track", project_id |-> project_id,
                   track_id |-> track_id, notes |-> "", err |-> err,
                   exit |-> ExitStatus(err), ret |-> <<>>, position |-> 0,
                   out |-> <<>>,
                   follows |-> SummaryOfAdd(last, project_id, track_id)]
       /\ pre' = Tables
       /\ UNCHANGED <<tracks, today, issued>>

list_tracks(project_id) ==
    LET err == list_tracks_error(projects, project_id)
    IN /\ last' = [op |-> "list_tracks", project_id |-> project_id,
                   track_id |-> "", notes |-> "", err |-> err,
                   exit |-> ExitStatus(err), ret |-> <<>>, position |-> 0,
                   out |-> IF err = "none"
                           THEN list_tracks_output(tracks, project_tracks,
                                                   project_id)
                           ELSE <<>>,
                   follows |-> Summary(last)]
       /\ pre' = Tables
       /\ UNCHANGED <<projects, project_tracks, tracks, today, issued>>

\* midnight passes
next_day ==
    /\ today + 1 \in Days
    /\ today' = today + 1
    /\ UNCHANGED <<projects, project_tracks, tracks>>

\* midnight passes between two commands
NextDay == next_day /\ UNCHANGED <<last, pre, issued>> /\ UNCHANGED stepwise

CreateProject ==
    /\ \E name \in NameArgs : create_project(name)
    /\ UNCHANGED stepwise

AddTrack ==
    /\ \E project_id \in ProjectIdArgs, track_id \in TrackIds, notes \in NotesArgs :
          add_track(project_id, track_id, notes)
    /\ UNCHANGED stepwise

RemoveTrack ==
    /\ \E project_id \in ProjectIdArgs, track_id \in TrackIds :
          remove_track(project_id, track_id)
    /\ UNCHANGED stepwise

ListTracks ==
    /\ \E project_id \in ProjectIdArgs : list_tracks(project_id)
    /\ UNCHANGED stepwise

Next == CreateProject \/ AddTrack \/ RemoveTrack \/ ListTracks \/ NextDay

Spec == Init /\ [][Next]_vars

----------------------------------------------------------------------------
(* A scripted session on P001: add_track T1, list_tracks, add_track T1     *)
(* again, remove_track T1, list_tracks.  Between two commands of the       *)
(* script midnight may pass and commands may be run on P002.               *)

\* files in which P001 is a project without membership rows; P002 may hold
\* rows, whether or not projects.csv lists it
ScenarioStores ==
    [projects : {<<ProjectRow(P(1), "S", 0)>>,
                 <<ProjectRow(P(1), "S", 0), ProjectRow(P(2), "S", 0)>>,
                 <<ProjectRow(P(2), "S", 0), ProjectRow(P(1), "S", 0)>>},
     project_tracks : {<<>>,
                       <<MemberRow(P(2), "T1", 0, 1, "")>>,
                       <<MemberRow(P(2), "T2", 0, 2, "")>>,
                       <<MemberRow(P(2), "T2", 0, 2, ""),
                         MemberRow(P(2), "T1", 0, 1, "")>>}]

InitScenario ==
    /\ \E s \in ScenarioStores :
          /\ projects = s.projects
          /\ project_tracks = s.project_tracks
    /\ tracks = Catalog
    /\ today = 0
    /\ last = [op |-> "none", project_id |-> <<>>, track_id |-> "",
               notes |-> "", err |-> "none", exit |-> 0, ret |-> <<>>,
               position |-> 0, out |-> <<>>, follows |-> NoCommand]
    /\ pre = Tables
    /\ issued = <<>>
    /\ scenario = <<>>
    /\ procs = <<>>
    /\ headerless = {}

\* the k-th command of the script: its exit and output are written down
ScenarioStep(k, command) ==
    /\ Len(scenario) = k - 1
    /\ command
    /\ scenario' = Append(scenario, [op |-> last'.op, err |-> last'.err,
                                     exit |-> last'.exit, out |-> last'.out,
                                     day |-> today])
    /\ UNCHANGED <<procs, headerless>>

ScenarioAdd == ScenarioStep(1, add_track(P(1), "T1", ""))

ScenarioList == ScenarioStep(2, list_tracks(P(1)))

ScenarioAddAgain == ScenarioStep(3, add_track(P(1), "T1", ""))

ScenarioRemove == ScenarioStep(4, remove_track(P(1), "T1"))

ScenarioListAgain == ScenarioStep(5, list_tracks(P(1)))

\* a command on P002 run between two commands of the script
ScenarioElsewhere ==
    /\ \/ \E track_id \in TrackIds : add_track(P(2), track_id, "")
       \/ \E track_id \in TrackIds : remove_track(P(2), track_id)
       \/ list_tracks(P(2))
    /\ UNCHANGED stepwise

NextScenario ==
    \/ ScenarioAdd \/ ScenarioList \/ ScenarioAddAgain \/ ScenarioRemove
    \/ ScenarioListAgain \/ ScenarioElsewhere \/ NextDay

SpecScenario == InitScenario /\ [][NextScenario]_vars

----------------------------------------------------------------------------
(* The commands run step by step.  Every invocation of the script is a     *)
(* process of its own; one step is one access to a file (a whole read, the *)
(* open(..., 'w') that truncates, the close that writes the rows out) with *)
(* the computation that follows it.  The tables are smaller than the       *)
(* buffer of the file object, so the rows reach the file in one write when *)
(* the file is closed.  tracks.csv is never written, so validating the     *)
(* track is done in the step that validates the project.                   *)

CrashProcs == {1}        \* one invocation, which may be killed
RaceProcs == {1, 2}      \* two invocations on the same files

StepStores ==
    { [projects |-> <<ProjectRow(P(1), "S", 0)>>, project_tracks |-> <<>>],
      [projects |-> <<ProjectRow(P(1), "S", 0), ProjectRow(P(2), "S", 0)>>,
       project_tracks |-> <<MemberRow(P(1), "T1", 0, 1, ""),
                            MemberRow(P(2), "T1", 0, 1, "")>>] }

\* the command lines the processes are started with
StepCommands ==
    {[op |-> "create_project", project_id |-> <<>>, track_id |-> ""],
     [op |-> "add_track", project_id |-> P(1), track_id |-> "T1"],
     [op |-> "add_track", project_id |-> P(1), track_id |-> "T2"],
     [op |-> "remove_track", project_id |-> P(1), track_id |-> "T1"],
     [op |-> "list_tracks", project_id |-> P(1), track_id |-> ""]}

\* a process that has not been started: its locals
Idle ==
    [pc |-> "idle", at |-> "idle", op |-> "none", project_id |-> <<>>,
     track_id |-> "", day |-> 0, mday |-> 0, position |-> 0,
     rows |-> <<>>, prows |-> <<>>, fieldnames |-> TRUE, before |-> <<>>,
     stored |-> FALSE, after |-> {}, err |-> "none", out |-> <<>>,
     name |-> "", seen |-> <<>>, during |-> {},
     start |-> [projects |-> <<>>, project_tracks |-> <<>>]]

InitSteps(pids) ==
    /\ \E s \in StepStores :
          /\ projects = s.projects
          /\ project_tracks = s.project_tracks
    /\ tracks = Catalog
    /\ today = 0
    /\ last = [op |-> "none", project_id |-> <<>>, track_id |-> "",
               notes |-> "", err |-> "none", exit |-> 0, ret |-> <<>>,
               position |-> 0, out |-> <<>>, follows |-> NoCommand]
    /\ pre = Tables
    /\ issued = <<>>
    /\ scenario = <<>>
    /\ procs = [i \in pids |-> Idle]
    /\ headerless = {}

\* what a step of a process leaves alone
serial == <<tracks, today, last, pre, issued, scenario>>

FirstPc(op) ==
    CASE op = "create_project" -> "next_id"
      [] op = "add_track" -> "validate"
      [] op = "remove_track" -> "load"
      [] op = "list_tracks" -> "validate"

Finish(p, err) == [p EXCEPT !.pc = "done", !.err = err]

\* csv.DictReader(f).fieldnames is None on a file of zero bytes
HasHeader(file) == file \notin headerless

\* a write of rows at offset 0 of a file that was truncated when it was
\* opened: rows another process wrote since then stay beyond the end
Overlay(current, rows) ==
    rows \o SubSeq(current, Len(rows) + 1, Len(current))

\* variant: the change is applied to the rows the file held when it was
\* opened for writing, not to the rows loaded before
Stored_reloaded(current, p) ==
    Overlay(current,
            IF p.op = "add_track"
            THEN p.before \o SubSeq(p.rows, Len(p.rows), Len(p.rows))
            ELSE remove_track_rows(p.before, p.project_id, p.track_id))

\* what project_tracks.csv holds once the process has closed it
Stored(current, p) == Overlay(current, p.rows)

\* the writers that have a file open, as [before, after] contents
Writing(file, i) ==
    {[before |-> procs[j].before,
      after |-> IF file = "projects" THEN procs[j].prows ELSE procs[j].rows] :
         j \in {k \in DOMAIN procs \ {i} :
                   procs[k].pc = (IF file = "projects" THEN "pj_close"
                                                       ELSE "pt_close")}}

\* a read by list_tracks: what it saw and who was writing the file then
Observe(p, i, file, rows) ==
    [p EXCEPT !.seen = rows, !.during = Writing(file, i)]

get_project_name(projs, project_id) ==
    IF validate_project_exists(projs, project_id)
    THEN LET i == CHOOSE k \in 1..Len(projs) :
                      /\ projs[k].project_id = project_id
                      /\ \A j \in 1..(k - 1) : projs[j].project_id # project_id
         IN projs[i].name
    ELSE "Unknown"

\* the command line is parsed and the handler entered
Invoke(i) ==
    /\ procs[i].pc = "idle"
    /\ \E c \in StepCommands :
          procs' = [procs EXCEPT ![i] =
                       [Idle EXCEPT !.pc = FirstPc(c.op), !.op = c.op,
                                    !.project_id = c.project_id,
                                    !.track_id = c.track_id,
                                    !.start = [projects |-> projects,
                                               project_tracks |-> project_tracks]]]
    /\ UNCHANGED <<projects, project_tracks, headerless>>
    /\ UNCHANGED serial

\* validate_project_exists, and for add_track validate_track_exists
Validate(i) ==
    LET p == procs[i]
        err == IF ~validate_project_exists(projects, p.project_id)
               THEN "NotFound(project)"
               ELSE IF p.op = "add_track"
                       /\ ~validate_track_exists(tracks, p.track_id)
               THEN "NotFound(track)"
               ELSE "none"
        q == IF p.op = "list_tracks" THEN Observe(p, i, "projects", projects)
             ELSE p
    IN /\ p.pc = "validate"
       /\ procs' = [procs EXCEPT ![i] =
             IF err # "none" THEN Finish(q, err)
             ELSE [q EXCEPT !.pc = IF p.op = "add_track" THEN "track_in_project"
                                   ELSE "get_project_name"]]
       /\ UNCHANGED <<projects, project_tracks, headerless>>
       /\ UNCHANGED serial

TrackInProject(i) ==
    LET p == procs[i]
    IN /\ p.pc = "track_in_project"
       /\ procs' = [procs EXCEPT ![i] =
             IF track_in_project(project_tracks, p.project_id, p.track_id)
             THEN Finish(p, "Conflict")
             ELSE [p EXCEPT !.pc = "get_next_position"]]
       /\ UNCHANGED <<projects, project_tracks, headerless>>
       /\ UNCHANGED serial

\* get_next_position, then today's date is taken
GetNextPosition(i) ==
    LET p == procs[i]
    IN /\ p.pc = "get_next_position"
       /\ procs' = [procs EXCEPT ![i] =
             [p EXCEPT !.pc = "load",
                       !.position = get_next_position(project_tracks, p.project_id),
                       !.day = today]]
       /\ UNCHANGED <<projects, project_tracks, headerless>>
       /\ UNCHANGED serial

\* project_tracks.csv is read; add_track appends its row to the rows read,
\* remove_track filters them and stops when nothing was filtered out
LoadTracks(i) ==
    LET p == procs[i]
        kept == remove_track_rows(project_tracks, p.project_id, p.track_id)
    IN /\ p.pc = "load"
       /\ procs' = [procs EXCEPT ![i] =
             IF p.op = "add_track"
             THEN [p EXCEPT !.pc = "pt_open",
                            !.fieldnames = HasHeader("project_tracks"),
                            !.rows = Append(project_tracks,
                                       MemberRow(p.project_id, p.track_id,
                                                 p.day, p.position, ""))]
             ELSE IF Len(kept) = Len(project_tracks)
             THEN Finish(p, "NotFound(membership)")
             ELSE [p EXCEPT !.pc = "pt_open",
                            !.fieldnames = HasHeader("project_tracks"),
                            !.rows = kept]]
       /\ UNCHANGED <<projects, project_tracks, headerless>>
       /\ UNCHANGED serial

\* open(PROJECT_TRACKS_FILE, 'w'): the file is truncated
OpenTracks(i) ==
    LET p == procs[i]
    IN /\ p.pc = "pt_open"
       /\ project_tracks' = <<>>
       /\ headerless' = headerless \cup {"project_tracks"}
       /\ procs' = [procs EXCEPT ![i] =
             [p EXCEPT !.pc = "pt_close", !.before = project_tracks,
                       !.after = {j \in DOMAIN procs \ {i} : procs[j].stored}]]
       /\ UNCHANGED projects
       /\ UNCHANGED serial

\* variant: modified_on is set in the step that writes project_tracks.csv
CloseTracks_with_projects(i) ==
    LET p == procs[i]
    IN /\ p.pc = "pt_close"
       /\ project_tracks' = Stored(project_tracks, p)
       /\ projects' = update_project_modified(projects, p.project_id, today)
       /\ headerless' = headerless \ {"project_tracks"}
       /\ procs' = [procs EXCEPT ![i] =
                       [p EXCEPT !.pc = "upd_load", !.stored = TRUE]]
       /\ UNCHANGED serial

\* writeheader, writerows and the close that ends the with block; a
\* DictWriter without fieldnames raises in writeheader
CloseTracks(i) ==
    LET p == procs[i]
    IN /\ p.pc = "pt_close"
       /\ IF p.fieldnames
          THEN /\ project_tracks' = Stored(project_tracks, p)
               /\ headerless' = headerless \ {"project_tracks"}
               /\ procs' = [procs EXCEPT ![i] =
                               [p EXCEPT !.pc = "upd_load", !.stored = TRUE]]
          ELSE /\ procs' = [procs EXCEPT ![i] = Finish(p, "TypeError")]
               /\ UNCHANGED <<project_tracks, headerless>>
       /\ UNCHANGED projects
       /\ UNCHANGED serial

\* create_project: get_next_project_id, then today's date is taken
NextId(i) ==
    LET p == procs[i]
    IN /\ p.pc = "next_id"
       /\ procs' = [procs EXCEPT ![i] =
             [p EXCEPT !.pc = "upd_load",
                       !.project_id = get_next_project_id(projects),
                       !.day = today]]
       /\ UNCHANGED <<projects, project_tracks, headerless>>
       /\ UNCHANGED serial

\* projects.csv is read: create_project appends its row to the rows read,
\* update_project_modified takes today's date and sets modified_on in them
LoadProjects(i) ==
    LET p == procs[i]
    IN /\ p.pc = "upd_load"
       /\ procs' = [procs EXCEPT ![i] =
             IF p.op = "create_project"
             THEN [p EXCEPT !.pc = "pj_open",
                            !.fieldnames = HasHeader("projects"),
                            !.prows = Append(projects,
                                        ProjectRow(p.project_id, "A", p.day))]
             ELSE [p EXCEPT !.pc = "pj_open",
                            !.fieldnames = HasHeader("projects"),
                            !.mday = today,
                            !.prows = update_project_modified(projects,
                                          p.project_id, today)]]
       /\ UNCHANGED <<projects, project_tracks, headerless>>
       /\ UNCHANGED serial

\* open(PROJECTS_FILE, 'w'): the file is truncated
OpenProjects(i) ==
    LET p == procs[i]
    IN /\ p.pc = "pj_open"
       /\ projects' = <<>>
       /\ headerless' = headerless \cup {"projects"}
       /\ procs' = [procs EXCEPT ![i] =
                       [p EXCEPT !.pc = "pj_close", !.before = projects]]
       /\ UNCHANGED project_tracks
       /\ UNCHANGED serial

CloseProjects(i) ==
    LET p == procs[i]
    IN /\ p.pc = "pj_close"
       /\ IF p.fieldnames
          THEN /\ projects' = Overlay(projects, p.prows)
               /\ headerless' = headerless \ {"projects"}
               /\ procs' = [procs EXCEPT ![i] = Finish(p, "none")]
          ELSE /\ procs' = [procs EXCEPT ![i] = Finish(p, "TypeError")]
               /\ UNCHANGED <<projects, headerless>>
       /\ UNCHANGED project_tracks
       /\ UNCHANGED serial

GetProjectName(i) ==
    LET p == procs[i]
    IN /\ p.pc = "get_project_name"
       /\ procs' = [procs EXCEPT ![i] =
             [Observe(p, i, "projects", projects) EXCEPT
                 !.pc = "collect",
                 !.name = get_project_name(projects, p.project_id)]]
       /\ UNCHANGED <<projects, project_tracks, headerless>>
       /\ UNCHANGED serial

\* list_tracks reads project_tracks.csv, sorts and prints
Collect(i) ==
    LET p == procs[i]
    IN /\ p.pc = "collect"
       /\ procs' = [procs EXCEPT ![i] =
             [Observe(p, i, "project_tracks", project_tracks) EXCEPT
                 !.pc = "done",
                 !.out = list_tracks_output(tracks, project_tracks,
                                            p.project_id)]]
       /\ UNCHANGED <<projects, project_tracks, headerless>>
       /\ UNCHANGED serial

\* the process is killed where it stands; what it had buffered is lost
Kill(i) ==
    LET p == procs[i]
    IN /\ p.pc \notin {"idle", "done", "killed"}
       /\ procs' = [procs EXCEPT ![i] = [p EXCEPT !.pc = "killed", !.at = p.pc]]
       /\ UNCHANGED <<projects, project_tracks, headerless>>
       /\ UNCHANGED serial

NextSteps ==
    \/ \E i \in DOMAIN procs : Invoke(i)
    \/ \E i \in DOMAIN procs : Validate(i)
    \/ \E i \in DOMAIN procs : TrackInProject(i)
    \/ \E i \in DOMAIN procs : GetNextPosition(i)
    \/ \E i \in DOMAIN procs : LoadTracks(i)
    \/ \E i \in DOMAIN procs : OpenTracks(i)
    \/ \E i \in DOMAIN procs : CloseTracks(i)
    \/ \E i \in DOMAIN procs : NextId(i)
    \/ \E i \in DOMAIN procs : LoadProjects(i)
    \/ \E i \in DOMAIN procs : OpenProjects(i)
    \/ \E i \in DOMAIN procs : CloseProjects(i)
    \/ \E i \in DOMAIN procs : GetProjectName(i)
    \/ \E i \in DOMAIN procs : Collect(i)
    \/ \E i \in DOMAIN procs : Kill(i)
    \/ NextDay

\* one invocation at a time, which may be killed at any step
SpecCrash == InitSteps(CrashProcs) /\ [][NextSteps]_vars

\* two invocations whose steps interleave
SpecRace == InitSteps(RaceProcs) /\ [][NextSteps]_vars

----------------------------------------------------------------------------
(* Vocabulary of the properties *)

SetMax(S) == CHOOSE m \in S : \A x \in S : x <= m

ProjectIdsOf(projs) == {projs[i].project_id : i \in 1..Len(projs)}

TrackIdsOf(trks) == {trks[i].id : i \in 1..Len(trks)}

\* indices of the rows of pts with key (project_id, track_id)
PairRows(pts, project_id, track_id) ==
    {i \in 1..Len(pts) :
        pts[i].project_id = project_id /\ pts[i].track_id = track_id}

\* indices of the rows of pts that belong to project_id
RowsOf(pts, project_id) == {i \in 1..Len(pts) : pts[i].project_id = project_id}

\* id is 'P' followed by the decimal digits of n, padded with zeros to at
\* least three digits and no further
IsProjectIdOf(id, n) ==
    /\ Len(id) >= 4
    /\ id[1] = "P"
    /\ \A k \in 2..Len(id) : \E d \in 1..10 : DigitChars[d] = id[k]
    /\ ParseInt(Tail(id)) = n
    /\ Len(id) > 4 => id[2] # "0"

Succeeded(op) == last.op = op /\ last.err = "none"

Failed(op, err) == last.op = op /\ last.err = err /\ last.exit # 0

----------------------------------------------------------------------------
(* C1: every id create_project returns is 'P' followed by (the largest     *)
(* number among the existing project ids, 0 if there is none) + 1, padded  *)
(* to three digits; it is not an id the table already held, the ids        *)
(* returned so far increase strictly, and no two project rows share an id. *)

C1_ProjectIdAssignment ==
    /\ last.op = "create_project" =>
          LET nums == {ProjectIdNumber(id) : id \in ProjectIdsOf(pre.projects)}
              prev == IF nums = {} THEN 0 ELSE SetMax(nums)
          IN /\ IsProjectIdOf(last.ret, prev + 1)
             /\ last.ret \notin ProjectIdsOf(pre.projects)
             /\ last.ret = projects[Len(projects)].project_id
             /\ issued[Len(issued)] = last.ret
    /\ \A i, j \in 1..Len(issued) :
          i < j => ProjectIdNumber(issued[i]) < ProjectIdNumber(issued[j])
    /\ \A i, j \in 1..Len(projects) :
          i # j => projects[i].project_id # projects[j].project_id

\* two projects have been created in a row, the second numbered past the first
C1_Witness ==
    /\ last.op = "create_project"
    /\ Len(issued) = 2
    /\ Len(projects) >= 2

\* a project created where the number needs a fourth digit
C1_WitnessFourDigits ==
    /\ last.op = "create_project"
    /\ last.ret = <<"P", "1", "0", "0", "0">>

(* C2: project_tracks never holds two rows with the same                   *)
(* (project_id, track_id).                                                 *)

C2_PairUnique ==
    \A i, j \in 1..Len(project_tracks) :
        (/\ project_tracks[i].project_id = project_tracks[j].project_id
         /\ project_tracks[i].track_id = project_tracks[j].track_id) => i = j

\* a pair that add_track itself appended, on day 1, was added a second time
\* and refused, while the file holds another row
C2_Witness ==
    /\ Failed("add_track", "Conflict")
    /\ Len(project_tracks) >= 2
    /\ \E i \in PairRows(project_tracks, last.project_id, last.track_id) :
          project_tracks[i].added_date = 1

(* C3: a successful add_track(p, t) appends exactly one row, for (p, t),   *)
(* whose position is 1 + the largest position among the rows p had (1 if   *)
(* it had none); list_tracks(p) run right after it succeeds and shows t at *)
(* that position.                                                          *)

C3_AddThenList ==
    /\ Succeeded("add_track") =>
          LET mine == {pre.project_tracks[i].position :
                          i \in RowsOf(pre.project_tracks, last.project_id)}
              pos == IF mine = {} THEN 1 ELSE SetMax(mine) + 1
              row == project_tracks[Len(project_tracks)]
          IN /\ Len(project_tracks) = Len(pre.project_tracks) + 1
             /\ SubSeq(project_tracks, 1, Len(pre.project_tracks))
                   = pre.project_tracks
             /\ row.project_id = last.project_id
             /\ row.track_id = last.track_id
             /\ row.position = pos
             /\ last.position = pos
    /\ (/\ last.op = "list_tracks"
        /\ last.follows.op = "add_track"
        /\ last.follows.project_id = last.project_id) =>
          /\ last.err = "none"
          /\ \E k \in 1..Len(last.out) :
                /\ last.out[k].track_id = last.follows.track_id
                /\ last.out[k].position = last.follows.position

\* list_tracks ran right after an add that went past a gap: the project
\* held one row, at position 2, and the new row got position 3
C3_Witness ==
    /\ last.op = "list_tracks"
    /\ last.follows.op = "add_track"
    /\ last.follows.project_id = last.project_id
    /\ last.follows.position = 3
    /\ Len(last.out) = 2

\* the first track of a project that had no rows
C3_WitnessEmptyProject ==
    /\ Succeeded("add_track")
    /\ RowsOf(pre.project_tracks, last.project_id) = {}
    /\ last.position = 1

(* C4 as stated: add_track(p, t) run when (p, t) is a membership row is    *)
(* rejected with Conflict and a non-zero exit status, and p has as many    *)
(* rows after the call as before.                                          *)

C4_Original ==
    (/\ last.op = "add_track"
     /\ PairRows(pre.project_tracks, last.project_id, last.track_id) # {}) =>
        /\ Failed("add_track", "Conflict")
        /\ Cardinality(RowsOf(project_tracks, last.project_id))
              = Cardinality(RowsOf(pre.project_tracks, last.project_id))

(* C4 as amended: add_track(p, t) run when p is in projects, t is in       *)
(* tracks and (p, t) is a membership row is rejected with Conflict and a   *)
(* non-zero exit status, and p has as many rows after the call as before.  *)

C4_DuplicateRejected ==
    (/\ last.op = "add_track"
     /\ last.project_id \in ProjectIdsOf(pre.projects)
     /\ last.track_id \in TrackIdsOf(pre.tracks)
     /\ PairRows(pre.project_tracks, last.project_id, last.track_id) # {}) =>
        /\ Failed("add_track", "Conflict")
        /\ Cardinality(RowsOf(project_tracks, last.project_id))
              = Cardinality(RowsOf(pre.project_tracks, last.project_id))

\* the same pair was added a second time and refused
C4_Witness ==
    /\ Failed("add_track", "Conflict")
    /\ Cardinality(PairRows(project_tracks, last.project_id, last.track_id)) = 1
    /\ Cardinality(RowsOf(project_tracks, last.project_id)) >= 2

(* C5 as stated: add_track(p, t) is rejected with NotFound(project) when   *)
(* p is not in projects, and with NotFound(track) when t is not in tracks; *)
(* in both cases project_tracks gets no row.                               *)

C5_Original ==
    last.op = "add_track" =>
        /\ last.project_id \notin ProjectIdsOf(pre.projects) =>
              /\ Failed("add_track", "NotFound(project)")
              /\ project_tracks = pre.project_tracks
        /\ last.track_id \notin TrackIdsOf(pre.tracks) =>
              /\ Failed("add_track", "NotFound(track)")
              /\ project_tracks = pre.project_tracks

(* C5 as amended: add_track(p, t) is rejected with NotFound(project) when  *)
(* p is not in projects, and with NotFound(track) when p is in projects    *)
(* and t is not in tracks; in both cases project_tracks gets no row.       *)

C5_MissingEntityRejected ==
    last.op = "add_track" =>
        /\ last.project_id \notin ProjectIdsOf(pre.projects) =>
              /\ Failed("add_track", "NotFound(project)")
              /\ project_tracks = pre.project_tracks
        /\ (/\ last.project_id \in ProjectIdsOf(pre.projects)
            /\ last.track_id \notin TrackIdsOf(pre.tracks)) =>
              /\ Failed("add_track", "NotFound(track)")
              /\ project_tracks = pre.project_tracks

\* a track the catalog does not hold was refused for an existing project
\* that did not hold it either
C5_Witness ==
    /\ Failed("add_track", "NotFound(track)")
    /\ PairRows(project_tracks, last.project_id, last.track_id) = {}
    /\ last.project_id \in ProjectIdsOf(projects)

\* a catalog track was refused for a project that does not exist
C5_WitnessProject ==
    /\ Failed("add_track", "NotFound(project)")
    /\ last.track_id \in TrackIdsOf(tracks)

(* C6: add_track reports the first unmet check in the order project        *)
(* exists, track exists, pair not present: a missing project gives         *)
(* NotFound(project) whatever the track and the pair are, a missing track  *)
(* of an existing project gives NotFound(track) even when the pair is      *)
(* present, and Conflict is reported only when both exist.                 *)

C6_CheckOrder ==
    last.op = "add_track" =>
        LET noProject == last.project_id \notin ProjectIdsOf(pre.projects)
            noTrack == last.track_id \notin TrackIdsOf(pre.tracks)
            present == PairRows(pre.project_tracks, last.project_id,
                                last.track_id) # {}
        IN /\ noProject => last.err = "NotFound(project)"
           /\ last.err = "NotFound(track)" <=> (~noProject /\ noTrack)
           /\ last.err = "Conflict" <=> (~noProject /\ ~noTrack /\ present)
           /\ last.err \in {"none", "NotFound(project)", "NotFound(track)",
                            "Conflict"}
           /\ last.exit = 0 <=> last.err = "none"

\* a missing track was reported although the pair is a membership row
C6_Witness ==
    /\ Failed("add_track", "NotFound(track)")
    /\ PairRows(pre.project_tracks, last.project_id, last.track_id) # {}

\* a missing project was reported although the track is missing too
C6_WitnessBothMissing ==
    /\ Failed("add_track", "NotFound(project)")
    /\ last.track_id \notin TrackIdsOf(pre.tracks)

\* a missing project was reported although the pair is a membership row
C6_WitnessProjectPairPresent ==
    /\ Failed("add_track", "NotFound(project)")
    /\ PairRows(pre.project_tracks, last.project_id, last.track_id) # {}

(* C7: when add_track, remove_track or list_tracks ends with an error,     *)
(* projects, project_tracks and tracks are what they were before the call. *)

C7_NoWriteOnError ==
    (/\ last.op \in {"add_track", "remove_track", "list_tracks"}
     /\ last.err # "none") =>
        /\ last.exit # 0
        /\ projects = pre.projects
        /\ project_tracks = pre.project_tracks
        /\ tracks = pre.tracks

\* remove_track failed on an existing project whose modified_on is an
\* earlier day, and which holds other rows
C7_Witness ==
    /\ Failed("remove_track", "NotFound(membership)")
    /\ RowsOf(project_tracks, last.project_id) # {}
    /\ \E i \in 1..Len(projects) :
          /\ projects[i].project_id = last.project_id
          /\ projects[i].modified_on < today

(* C8: a successful remove_track(p, t) removes exactly one row, the one    *)
(* with key (p, t); every other row stays, in file order, with its         *)
(* position, added_date and notes.                                         *)

C8_RemoveExactlyOne ==
    Succeeded("remove_track") =>
        \E k \in 1..Len(pre.project_tracks) :
            /\ pre.project_tracks[k].project_id = last.project_id
            /\ pre.project_tracks[k].track_id = last.track_id
            /\ project_tracks =
                  SubSeq(pre.project_tracks, 1, k - 1)
                  \o SubSeq(pre.project_tracks, k + 1, Len(pre.project_tracks))

\* the row at position 1 was removed from a project that keeps a row at
\* position 2, while another project holds the same track
C8_Witness ==
    /\ Succeeded("remove_track")
    /\ \E i \in RowsOf(project_tracks, last.project_id) :
          project_tracks[i].position = 2
    /\ \A i \in RowsOf(project_tracks, last.project_id) :
          project_tracks[i].position # 1
    /\ \E i \in 1..Len(project_tracks) :
          /\ project_tracks[i].project_id # last.project_id
          /\ project_tracks[i].track_id = last.track_id

(* C9: remove_track(p, t) fails with NotFound(membership) exactly when     *)
(* project_tracks holds no row with key (p, t), whether or not p is a      *)
(* project, and succeeds otherwise.                                        *)

C9_RemoveNotFound ==
    last.op = "remove_track" =>
        LET absent == PairRows(pre.project_tracks, last.project_id,
                               last.track_id) = {}
        IN /\ absent => Failed("remove_track", "NotFound(membership)")
           /\ ~absent => (last.err = "none" /\ last.exit = 0)

\* the membership was reported missing for a project that does not exist
C9_Witness ==
    /\ Failed("remove_track", "NotFound(membership)")
    /\ last.project_id \notin ProjectIdsOf(projects)

\* a row was removed although its project does not exist
C9_WitnessRemovedOrphan ==
    /\ Succeeded("remove_track")
    /\ last.project_id \notin ProjectIdsOf(projects)

(* C10: list_tracks(p) of an existing project returns the rows of p, all   *)
(* of them and no other, in ascending order of position, each with the     *)
(* title its track has in tracks, or "Unknown" when tracks has no such id. *)

EntryOf(row, trks) ==
    [position   |-> row.position,
     track_id   |-> row.track_id,
     title      |-> IF \E i \in 1..Len(trks) : trks[i].id = row.track_id
                    THEN (CHOOSE r \in {trks[i] : i \in 1..Len(trks)} :
                             r.id = row.track_id).track_title
                    ELSE "Unknown",
     added_date |-> row.added_date,
     notes      |-> row.notes]

C10_ListContents ==
    (/\ last.op = "list_tracks"
     /\ last.project_id \in ProjectIdsOf(pre.projects)) =>
        LET mine == RowsOf(pre.project_tracks, last.project_id)
        IN /\ last.err = "none"
           /\ Len(last.out) = Cardinality(mine)
           /\ \A i \in mine :
                 \E k \in 1..Len(last.out) :
                    last.out[k] = EntryOf(pre.project_tracks[i], pre.tracks)
           /\ \A k \in 1..Len(last.out) :
                 \E i \in mine :
                    last.out[k] = EntryOf(pre.project_tracks[i], pre.tracks)
           /\ \A j, k \in 1..Len(last.out) :
                 j < k => last.out[j].position <= last.out[k].position

\* a listing of two rows that the file holds in the other order, one of a
\* track the catalog does not hold, while another project has a row too
C10_Witness ==
    /\ Succeeded("list_tracks")
    /\ Len(last.out) = 2
    /\ last.out[2].title = "Unknown"
    /\ last.out[1].title = "One"
    /\ \E i, j \in RowsOf(project_tracks, last.project_id) :
          i < j /\ project_tracks[i].position > project_tracks[j].position
    /\ \E i \in 1..Len(project_tracks) :
          project_tracks[i].project_id # last.project_id

(* C11: list_tracks(p) fails with NotFound(project) exactly when p is not  *)
(* in projects; for a project that exists and has no membership row it     *)
(* exits with status 0 and returns the empty sequence.                     *)

C11_ListNotFound ==
    last.op = "list_tracks" =>
        LET known == last.project_id \in ProjectIdsOf(pre.projects)
        IN /\ ~known => (Failed("list_tracks", "NotFound(project)")
                         /\ last.out = <<>>)
           /\ known => (last.err = "none" /\ last.exit = 0)
           /\ (known /\ RowsOf(pre.project_tracks, last.project_id) = {}) =>
                 last.out = <<>>

\* an existing project without rows was listed while another project has rows
C11_Witness ==
    /\ Succeeded("list_tracks")
    /\ last.project_id \in ProjectIdsOf(projects)
    /\ RowsOf(project_tracks, last.project_id) = {}
    /\ last.out = <<>>
    /\ Len(project_tracks) > 0

\* a project that does not exist was listed although rows carry its id
C11_WitnessMissing ==
    /\ Failed("list_tracks", "NotFound(project)")
    /\ RowsOf(project_tracks, last.project_id) # {}

(* C12: in every reachable state no two rows of one project have the same *)
(* position; and a project whose positions are exactly 1..n for its n rows *)
(* (an empty project is such a project) still has positions 1..n after     *)
(* every step that is not a successful remove_track on that project.       *)

PositionsOf(pts, project_id) ==
    {pts[i].position : i \in RowsOf(pts, project_id)}

C12_PositionUnique ==
    \A i, j \in 1..Len(project_tracks) :
        (/\ project_tracks[i].project_id = project_tracks[j].project_id
         /\ project_tracks[i].position = project_tracks[j].position) => i = j

Dense(pts, project_id) ==
    PositionsOf(pts, project_id) = 1..Cardinality(RowsOf(pts, project_id))

C12_DenseStep ==
    \A p \in ProjectIdArgs :
        (/\ Dense(project_tracks, p)
         /\ ~(/\ last'.op = "remove_track"
              /\ last'.err = "none"
              /\ last'.project_id = p
              /\ project_tracks' # project_tracks)) =>
            Dense(project_tracks', p)

C12_Positions == []C12_PositionUnique /\ [][C12_DenseStep]_vars

\* a project created in this run got two rows and holds positions 1 and 2
C12_Witness ==
    /\ Succeeded("add_track")
    /\ last.project_id \in {issued[k] : k \in 1..Len(issued)}
    /\ RowsOf(pre.project_tracks, last.project_id) # {}
    /\ PositionsOf(project_tracks, last.project_id) = {1, 2}
    /\ Cardinality(RowsOf(project_tracks, last.project_id)) = 2

\* a row was added to a project whose positions have a gap
C12_WitnessGap ==
    /\ Succeeded("add_track")
    /\ PositionsOf(project_tracks, last.project_id) = {2, 3}

(* C18: no step changes tracks; every step keeps each row of projects in  *)
(* its place with its project_id, and the set of project_ids changes only  *)
(* in a create_project step, which adds one id.                            *)

C18_Step ==
    /\ tracks' = tracks
    /\ Len(projects') >= Len(projects)
    /\ \A i \in 1..Len(projects) :
          projects'[i].project_id = projects[i].project_id
    /\ ProjectIdsOf(projects') # ProjectIdsOf(projects) =>
          /\ last'.op = "create_project"
          /\ ProjectIdsOf(projects') = ProjectIdsOf(projects) \cup {last'.ret}

C18_ReadOnlyTables == [][C18_Step]_vars

\* a track was removed from one of two projects, one of them created in
\* this run
C18_Witness ==
    /\ Succeeded("remove_track")
    /\ Len(projects) >= 2
    /\ Len(issued) >= 1
    /\ last.project_id \in ProjectIdsOf(projects)

(* C19: started from files in which every membership row names a project  *)
(* of projects and a track of tracks, every reachable state is such a      *)
(* state, and no listing shows the title "Unknown".                        *)

RefIntegrity(projs, trks, pts) ==
    \A i \in 1..Len(pts) :
        /\ pts[i].project_id \in ProjectIdsOf(projs)
        /\ pts[i].track_id \in TrackIdsOf(trks)

InitIntegral == Init /\ RefIntegrity(projects, tracks, project_tracks)

SpecIntegral == InitIntegral /\ [][Next]_vars

C19_RefIntegrity ==
    /\ RefIntegrity(projects, tracks, project_tracks)
    /\ last.op = "list_tracks" =>
          \A k \in 1..Len(last.out) : last.out[k].title # "Unknown"

\* two tracks of a project were listed while another project has a row
C19_Witness ==
    /\ Succeeded("list_tracks")
    /\ Len(last.out) = 2
    /\ \E i \in 1..Len(project_tracks) :
          project_tracks[i].project_id # last.project_id

(* C20: a successful remove_track(p, t) run right after a successful       *)
(* add_track(p, t) leaves project_tracks with the rows, order and          *)
(* positions it had before the add, so that the next position of p is      *)
(* again the one t had been given.                                         *)

C20_Step ==
    (/\ last.op = "add_track" /\ last.err = "none"
     /\ last'.op = "remove_track" /\ last'.err = "none"
     /\ last'.project_id = last.project_id
     /\ last'.track_id = last.track_id) =>
        /\ project_tracks' = pre.project_tracks
        /\ LET mine == PositionsOf(project_tracks', last.project_id)
           IN last.position = IF mine = {} THEN 1 ELSE SetMax(mine) + 1

C20_RoundTrip == [][C20_Step]_vars

\* the track added at position 3, past a gap, was removed right away
C20_Witness ==
    /\ Succeeded("remove_track")
    /\ last.follows.op = "add_track"
    /\ last.follows.position = 3
    /\ PositionsOf(project_tracks, last.project_id) = {2}

(* C13: in a session that starts with P001 a project without tracks and   *)
(* T1 in the catalog, add_track(P001, T1) succeeds; list_tracks(P001) then *)
(* returns the one entry (1, T1, title of T1, day of the add, "");         *)
(* add_track(P001, T1) run again fails with Conflict; remove_track(P001,   *)
(* T1) then succeeds and list_tracks(P001) returns the empty sequence.     *)

C13_Scenario ==
    /\ Len(scenario) >= 1 =>
          /\ scenario[1].op = "add_track"
          /\ scenario[1].err = "none" /\ scenario[1].exit = 0
    /\ Len(scenario) >= 2 =>
          /\ scenario[2].err = "none"
          /\ scenario[2].out = <<[position |-> 1, track_id |-> "T1",
                                  title |-> "One",
                                  added_date |-> scenario[1].day,
                                  notes |-> ""]>>
    /\ Len(scenario) >= 3 =>
          /\ scenario[3].op = "add_track"
          /\ scenario[3].err = "Conflict" /\ scenario[3].exit # 0
    /\ Len(scenario) >= 4 =>
          /\ scenario[4].op = "remove_track"
          /\ scenario[4].err = "none" /\ scenario[4].exit = 0
    /\ Len(scenario) >= 5 =>
          /\ scenario[5].err = "none"
          /\ scenario[5].out = <<>>

\* the whole script was run in one day, next to rows of another project
C13_Witness ==
    /\ Len(scenario) = 5
    /\ scenario[1].day = scenario[5].day
    /\ Len(project_tracks) >= 1

\* the script was run with midnight between the add and the first listing
C13_WitnessOvernight ==
    /\ Len(scenario) = 5
    /\ scenario[1].day = 0
    /\ scenario[2].day = 1

(* What project_tracks.csv holds after the command of process p, from the  *)
(* files as they were when the command was started.                        *)
ExpectedTracks(p) ==
    LET pts == p.start.project_tracks
        mine == PositionsOf(pts, p.project_id)
    IN IF p.op = "add_track"
       THEN Append(pts, [project_id |-> p.project_id, track_id |-> p.track_id,
                         added_date |-> p.day,
                         position |-> IF mine = {} THEN 1 ELSE SetMax(mine) + 1,
                         notes |-> ""])
       ELSE SelectSeq(pts, LAMBDA r : r.project_id # p.project_id
                                      \/ r.track_id # p.track_id)

(* C14: an add_track or remove_track run on its own leaves projects.csv as *)
(* it was until project_tracks.csv holds the new membership rows; when it  *)
(* has succeeded, projects.csv has the rows it had, in their places, and   *)
(* they differ only in modified_on of the row of p, which is the date of   *)
(* the update.                                                             *)

C14_ModifiedOn ==
    \A i \in DOMAIN procs :
        LET p == procs[i]
            was == p.start.projects
        IN p.op \in {"add_track", "remove_track"} =>
              /\ projects # was =>
                    /\ p.stored
                    /\ project_tracks = ExpectedTracks(p)
              /\ (p.pc = "done" /\ p.err = "none") =>
                    /\ Len(projects) = Len(was)
                    /\ \A k \in 1..Len(was) :
                          projects[k] =
                             IF was[k].project_id = p.project_id
                             THEN [was[k] EXCEPT !.modified_on = p.mday]
                             ELSE was[k]
                    /\ p.mday \in p.day..today

\* a track was added on day 1 to the first of two projects of day 0
C14_Witness ==
    \E i \in DOMAIN procs :
        /\ procs[i].pc = "done" /\ procs[i].err = "none"
        /\ procs[i].op = "add_track"
        /\ Len(projects) = 2
        /\ projects[1].modified_on = 1
        /\ projects[2].modified_on = 0
        /\ projects[1].created_on = 0

(* C15: an add_track or remove_track killed after it has written           *)
(* project_tracks.csv and before it opens projects.csv for writing leaves  *)
(* project_tracks.csv with the new membership rows and projects.csv as it  *)
(* was when the command was started, both files complete.                  *)

C15_Interrupted ==
    \A i \in DOMAIN procs :
        LET p == procs[i]
        IN (/\ p.pc = "killed"
            /\ p.op \in {"add_track", "remove_track"}
            /\ p.at \in {"upd_load", "pj_open"}) =>
               /\ project_tracks = ExpectedTracks(p)
               /\ projects = p.start.projects
               /\ headerless = {}

\* remove_track was killed on day 1 with the rows of projects.csv loaded
C15_Witness ==
    \E i \in DOMAIN procs :
        /\ procs[i].pc = "killed" /\ procs[i].at = "pj_open"
        /\ procs[i].op = "remove_track"
        /\ procs[i].mday = 1
        /\ Len(project_tracks) = 1
        /\ Len(projects) = 2

\* add_track was killed right after it had closed project_tracks.csv
C15_WitnessAdd ==
    \E i \in DOMAIN procs :
        /\ procs[i].pc = "killed" /\ procs[i].at = "upd_load"
        /\ procs[i].op = "add_track"
        /\ Len(project_tracks) = 3

(* C16: whatever list_tracks reads from a file while another process has   *)
(* that file open for writing is either what the file held before that     *)
(* process opened it or what the process writes.                           *)

C16_AtomicRewrite ==
    \A i \in DOMAIN procs :
        \A w \in procs[i].during : procs[i].seen \in {w.before, w.after}

(* C17: when two add_track commands for different tracks of one project    *)
(* have both succeeded, and the second process opened project_tracks.csv   *)
(* for writing after the first had written it, from rows loaded without    *)
(* the first one's row, the file holds the rows of the second process      *)
(* and no row for the first one's track.                                   *)

C17_LostUpdate ==
    \A a, b \in DOMAIN procs :
        (/\ a # b
         /\ procs[a].pc = "done" /\ procs[a].err = "none"
         /\ procs[b].pc = "done" /\ procs[b].err = "none"
         /\ procs[a].op = "add_track" /\ procs[b].op = "add_track"
         /\ procs[a].project_id = procs[b].project_id
         /\ procs[a].track_id # procs[b].track_id
         /\ b \in procs[a].after
         /\ PairRows(procs[a].rows, procs[b].project_id,
                     procs[b].track_id) = {}) =>
            /\ project_tracks = procs[a].rows
            /\ PairRows(project_tracks, procs[b].project_id,
                        procs[b].track_id) = {}

\* both add_track commands exited with status 0 and one new row is there
C17_Witness ==
    \E a, b \in DOMAIN procs :
        /\ a # b
        /\ procs[a].pc = "done" /\ procs[a].err = "none"
        /\ procs[b].pc = "done" /\ procs[b].err = "none"
        /\ procs[a].op = "add_track" /\ procs[b].op = "add_track"
        /\ procs[a].track_id # procs[b].track_id
        /\ procs[a].after = {b}
        /\ Len(project_tracks) = Len(procs[a].start.project_tracks) + 1
        /\ PairRows(project_tracks, procs[b].project_id,
                    procs[b].track_id) = {}
        /\ PairRows(project_tracks, procs[a].project_id,
                    procs[a].track_id) # {}

====
